---------------------------- MODULE Spec2Model ----------------------------
(***************************************************************************)
(* A model of scheme.py: the eval/apply mutual recursion, the environment  *)
(* frames, the special forms and the tail-call-preserving evaluator.       *)
(*                                                                         *)
(* Scheme values are tagged records.  A proper Scheme list (a Pair chain   *)
(* ended by nil) is L(<<e1, ..., en>>); nil is L(<<>>).  The frames live   *)
(* in a heap, a sequence of [bindings, parent] records; a frame is named   *)
(* by its index in the heap and the parent of the global frame is None.    *)
(*                                                                         *)
(* The evaluator threads a machine state s = [h, tr, it] through every     *)
(* call: the heap, the history of what was evaluated and defined, and the  *)
(* number of iterations the loop of scheme_optimized_eval may still take.  *)
(* Every evaluator operator also takes the number of nested evaluator      *)
(* activations the host stack still has room for (fuel).                   *)
(***************************************************************************)
EXTENDS Integers, Sequences, FiniteSets, TLC

VARIABLES heap, last

vars == <<heap, last>>

(***************************************************************************)
(* Bounds of the model.                                                    *)
(***************************************************************************)
\* nested evaluator activations the host stack has room for
RecursionLimit == 9
\* iterations of the loop of scheme_optimized_eval before a run counts as divergent
MaxIter == 24
\* frames the driver may hold at once
MaxFrames == 3
\* largest N of the counting loops
MaxN == 3

Max(a, b) == IF a >= b THEN a ELSE b

(***************************************************************************)
(* Values.                                                                 *)
(***************************************************************************)
None == 0

Num(n) == [t |-> "num", n |-> n]
Sym(s) == [t |-> "sym", s |-> s]
Bool(b) == [t |-> "bool", b |-> b]
L(l) == [t |-> "list", l |-> l]
nil == L(<<>>)
okay == [t |-> "okay"]
NoneValue == [t |-> "None"]

PrimitiveProcedure(fn) == [t |-> "prim", fn |-> fn]
LambdaProcedure(formals, body, env) ==
    [t |-> "lambda", formals |-> formals, body |-> body, env |-> env]
MuProcedure(formals, body) == [t |-> "mu", formals |-> formals, body |-> body]

scheme_symbolp(x) == x.t = "sym"
scheme_stringp(x) == x.t = "str"
scheme_listp(x) == x.t = "list"
scheme_atomp(x) == x.t \in {"bool", "num", "sym"} \/ x = nil
scheme_true(v) == v # Bool(FALSE)
scheme_false(v) == v = Bool(FALSE)
\* isinstance(x, Pair): a non-empty list
IsPair(x) == x.t = "list" /\ x.l # <<>>

(***************************************************************************)
(* Results.  st is "ok" (a value), "err" (a SchemeError or another Python  *)
(* exception, named by msg), "overflow" (the host stack is exhausted) or   *)
(* "div" (the loop did not end within MaxIter).  d is the largest number   *)
(* of nested evaluator activations the call reached.                       *)
(***************************************************************************)
Ok(v, s, d) == [st |-> "ok", v |-> v, s |-> s, d |-> d]
Err(msg, s, d) == [st |-> "err", v |-> [t |-> "error", msg |-> msg], s |-> s, d |-> d]
Overflow(s) == [st |-> "overflow", v |-> [t |-> "error", msg |-> "maximum recursion depth exceeded"], s |-> s, d |-> 0]
Diverge(s) == [st |-> "div", v |-> NoneValue, s |-> s, d |-> 0]

\* the activation that made the call r adds one to the nesting
Up(r) == [r EXCEPT !.d = @ + 1]
\* r, reached after calls that nested d deep
WithD(r, d) == [r EXCEPT !.d = Max(@, d)]

Log(s, e) == [s EXCEPT !.tr = Append(@, e)]
EvalEv(expr, env) == [ev |-> "eval", expr |-> expr, env |-> env]
DefineEv(frame, sym) == [ev |-> "define", frame |-> frame, sym |-> sym]

(***************************************************************************)
(* Environments.                                                           *)
(***************************************************************************)
NoBindings == [x \in {} |-> okay]

Frame(parent) == [bindings |-> NoBindings, parent |-> parent]

\* lookup that stops at the receiver
lookup_own(h, self, symbol) ==
    IF self # None /\ symbol.s \in DOMAIN h[self].bindings
    THEN [st |-> "ok", v |-> h[self].bindings[symbol.s]]
    ELSE [st |-> "err", v |-> [t |-> "error", msg |-> "unknown identifier"]]

RECURSIVE lookup(_, _, _)
lookup(h, self, symbol) ==
    IF self = None THEN [st |-> "err", v |-> [t |-> "error", msg |-> "unknown identifier"]]
    ELSE IF symbol.s \in DOMAIN h[self].bindings
         THEN [st |-> "ok", v |-> h[self].bindings[symbol.s]]
         ELSE lookup(h, h[self].parent, symbol)

RECURSIVE global_frame(_, _)
global_frame(h, e) == IF h[e].parent # None THEN global_frame(h, h[e].parent) ELSE e

define(s, self, sym, val) ==
    IF ~scheme_symbolp(sym) THEN Err("bad variable name", s, 0)
    ELSE Ok(sym,
            Log([s EXCEPT !.h[self].bindings = (sym.s :> val) @@ @], DefineEv(self, sym.s)),
            0)

RECURSIVE make_call_frame_loop(_, _, _, _)
make_call_frame_loop(s, frame, formals, vals) ==
    IF formals = <<>> /\ vals = <<>> THEN Ok(frame, s, 0)
    ELSE IF formals = <<>> \/ vals = <<>> THEN Err("parameter mismatch", s, 0)
    ELSE LET r == define(s, frame, Head(formals), Head(vals))
         IN  IF r.st # "ok" THEN r
             ELSE make_call_frame_loop(r.s, frame, Tail(formals), Tail(vals))

\* make_call_frame that pairs formals and values up to the shorter list
make_call_frame_zip(s, self, formals, vals) ==
    LET n == IF Len(formals.l) <= Len(vals.l) THEN Len(formals.l) ELSE Len(vals.l)
    IN  make_call_frame_loop([s EXCEPT !.h = Append(@, Frame(self))], Len(s.h) + 1,
                             SubSeq(formals.l, 1, n), SubSeq(vals.l, 1, n))

\* the result's v is the new frame (its index in the heap)
make_call_frame(s, self, formals, vals) ==
    make_call_frame_loop([s EXCEPT !.h = Append(@, Frame(self))], Len(s.h) + 1,
                         formals.l, vals.l)

(***************************************************************************)
(* Utility methods for checking the structure of Scheme programs.          *)
(* check_form and check_formals answer "ok" or the error they raise.  max  *)
(* is {} for no maximum and {n} for the maximum n.                         *)
(***************************************************************************)
check_form(expr, min, max) ==
    IF ~scheme_listp(expr) THEN "badly formed expression"
    ELSE IF Len(expr.l) < min THEN "too few operands in form"
    ELSE IF \E m \in max : Len(expr.l) > m THEN "too many operands in form"
    ELSE "ok"

RECURSIVE check_formals_loop(_, _)
check_formals_loop(formals, formals_set) ==
    IF formals = <<>> THEN "ok"
    ELSE IF IsPair(Head(formals)) THEN "TypeError: unhashable type"
    ELSE IF Head(formals) \in formals_set THEN "duplicate formal parameter"
    ELSE IF ~scheme_symbolp(Head(formals)) THEN "formal parameter is not valid"
    ELSE check_formals_loop(Tail(formals), formals_set \cup {Head(formals)})

\* check_formals without the set of the formals seen
check_formals_symbols(formals) ==
    IF ~scheme_listp(formals) THEN "AttributeError: first"
    ELSE IF \E i \in 1..Len(formals.l) : ~scheme_symbolp(formals.l[i])
    THEN "formal parameter is not valid"
    ELSE "ok"

check_formals(formals) ==
    IF ~scheme_listp(formals) THEN "AttributeError: first"
    ELSE check_formals_loop(formals.l, {})


(***************************************************************************)
(* The primitive procedures the model installs in the global frame: the    *)
(* numeric = and -.  A call the host function rejects (wrong number or     *)
(* type of arguments) is a SchemeError.                                    *)
(***************************************************************************)
PrimFn(fn, args) ==
    IF \E i \in 1..Len(args) : args[i].t # "num" THEN [st |-> "err", msg |-> "operand is not a number"]
    ELSE IF fn = "=" /\ Len(args) = 2 THEN [st |-> "ok", v |-> Bool(args[1].n = args[2].n)]
    ELSE IF fn = "-" /\ Len(args) = 2 THEN [st |-> "ok", v |-> Num(args[1].n - args[2].n)]
    ELSE IF fn = "-" /\ Len(args) = 1 THEN [st |-> "ok", v |-> Num(0 - args[1].n)]
    ELSE [st |-> "err", msg |-> "TypeError: wrong number of arguments"]

apply_primitive(procedure, args, env, s) ==
    LET r == PrimFn(procedure.fn, args.l)
    IN  IF r.st = "ok" THEN Ok(r.v, s, 0) ELSE Err(r.msg, s, 0)

(***************************************************************************)
(* Eval/Apply and the special forms.  A handler is given the room (fuel)   *)
(* its own calls of scheme_eval have; scheme_eval, given fuel, leaves      *)
(* fuel - 1 to what it calls.                                              *)
(***************************************************************************)
LOGIC_FORMS == {"and", "or", "if", "cond", "begin"}

RECURSIVE scheme_eval(_, _, _, _)
RECURSIVE scheme_apply(_, _, _, _, _)
RECURSIVE eval_operands(_, _, _, _, _, _, _)
RECURSIVE do_let_bindings(_, _, _, _, _, _)
RECURSIVE do_let_body(_, _, _, _, _)
RECURSIVE do_and_loop(_, _, _, _, _, _)
RECURSIVE do_or_loop(_, _, _, _, _, _)
RECURSIVE do_cond_loop(_, _, _, _, _, _)
RECURSIVE do_begin_loop(_, _, _, _, _, _)

quote(value) == L(<<Sym("quote"), value>>)

do_lambda_form(vals, env, s) ==
    IF check_form(vals, 2, {}) # "ok" THEN Err(check_form(vals, 2, {}), s, 0)
    ELSE LET formals == vals.l[1]
             body == IF Len(vals.l) = 2 THEN vals.l[2]
                     ELSE L(<<Sym("begin")>> \o Tail(vals.l))
         IN  IF check_formals(formals) # "ok" THEN Err(check_formals(formals), s, 0)
             ELSE Ok(LambdaProcedure(formals, body, env), s, 0)

do_mu_form(vals, s) ==
    IF check_form(vals, 2, {}) # "ok" THEN Err(check_form(vals, 2, {}), s, 0)
    ELSE LET formals == vals.l[1]
             body == IF Len(vals.l) = 2 THEN vals.l[2]
                     ELSE L(<<Sym("begin")>> \o Tail(vals.l))
         IN  IF check_formals(formals) # "ok" THEN Err(check_formals(formals), s, 0)
             ELSE Ok(MuProcedure(formals, body), s, 0)

\* define_value that binds in the global frame
define_value_global(env, target, value) ==
    IF value.st # "ok" THEN value
    ELSE WithD(define(value.s, global_frame(value.s.h, env), target, value.v), value.d)

\* env.define(target, <value>); return target.  value is the result of
\* scheme_eval(vals[1], env)
define_value(env, target, value) ==
    IF value.st # "ok" THEN value
    ELSE WithD(define(value.s, env, target, value.v), value.d)

\* env.define(name, f); return name.  f is the result of do_lambda_form
define_procedure(env, name, f) ==
    IF f.st # "ok" THEN f ELSE define(f.s, env, name, f.v)

do_define_form(vals, env, s, fuel) ==
    IF check_form(vals, 2, {}) # "ok" THEN Err(check_form(vals, 2, {}), s, 0)
    ELSE LET target == vals.l[1]
         IN  IF scheme_symbolp(target)
             THEN IF check_form(vals, 2, {2}) # "ok"
                  THEN Err(check_form(vals, 2, {2}), s, 0)
                  ELSE define_value(env, target, scheme_eval(vals.l[2], env, s, fuel))
             ELSE IF IsPair(target)
             THEN define_procedure(env, Head(target.l),
                      do_lambda_form(L(<<L(Tail(target.l))>> \o Tail(vals.l)), env, s))
             ELSE Err("bad argument to define", s, 0)

do_quote_form(vals, s) ==
    IF check_form(vals, 1, {1}) # "ok" THEN Err(check_form(vals, 1, {1}), s, 0)
    ELSE Ok(vals.l[1], s, 0)

\* new_env.define(name, value), then the bindings that follow.  value is the
\* result of scheme_eval(pair[1], env) for the first pair of bindings
let_define(bindings, env, new_env, fuel, d, value) ==
    IF value.st # "ok" THEN WithD(value, d)
    ELSE LET b == define(value.s, new_env, Head(bindings).l[1], value.v)
         IN  IF b.st # "ok" THEN WithD(b, Max(d, value.d))
             ELSE do_let_bindings(Tail(bindings), env, new_env, b.s, fuel, Max(d, value.d))

\* do_let_bindings with the values evaluated in the new frame
do_let_bindings_sequential(bindings, env, new_env, s, fuel, d) ==
    IF bindings = <<>> THEN Ok(okay, s, d)
    ELSE IF ~IsPair(Head(bindings)) THEN Err("TypeError: binding is not a pair", s, d)
    ELSE IF Len(Head(bindings).l) < 2 THEN Err("IndexError", s, d)
    ELSE let_define(bindings, env, new_env, fuel, d,
                    scheme_eval(Head(bindings).l[2], new_env, s, fuel))

\* for pair in bindings: name = pair[0]; value = scheme_eval(pair[1], env);
\* new_env.define(name, value)
do_let_bindings(bindings, env, new_env, s, fuel, d) ==
    IF bindings = <<>> THEN Ok(okay, s, d)
    ELSE IF ~IsPair(Head(bindings)) THEN Err("TypeError: binding is not a pair", s, d)
    ELSE IF Len(Head(bindings).l) < 2 THEN Err("IndexError", s, d)
    ELSE let_define(bindings, env, new_env, fuel, d,
                    scheme_eval(Head(bindings).l[2], env, s, fuel))

\* the expressions after the first.  r is the result of the first
let_body_next(exprs, new_env, fuel, d, r) ==
    IF r.st # "ok" THEN WithD(r, d)
    ELSE do_let_body(Tail(exprs), new_env, r.s, fuel, Max(d, r.d))

\* for i in range(0, last): scheme_eval(exprs[i], new_env)
do_let_body(exprs, new_env, s, fuel, d) ==
    IF Len(exprs) <= 1 THEN Ok(okay, s, d)
    ELSE let_body_next(exprs, new_env, fuel, d, scheme_eval(Head(exprs), new_env, s, fuel))

\* return exprs[last], new_env.  r is the result of do_let_body
let_result(exprs, new_env, r) ==
    IF r.st # "ok" THEN r
    ELSE [st |-> "ok", v |-> exprs[Len(exprs)], env |-> new_env, s |-> r.s, d |-> r.d]

\* b is the result of do_let_bindings
let_after_bindings(exprs, new_env, fuel, b) ==
    IF b.st # "ok" THEN b
    ELSE let_result(exprs, new_env, do_let_body(exprs, new_env, b.s, fuel, b.d))

\* the result's v is the expression to evaluate next and env the frame to
\* evaluate it in
do_let_form(vals, env, s, fuel) ==
    IF check_form(vals, 2, {}) # "ok" THEN Err(check_form(vals, 2, {}), s, 0)
    ELSE IF ~scheme_listp(vals.l[1]) THEN Err("bad bindings list in let form", s, 0)
    ELSE LET f == make_call_frame(s, env, nil, nil)
         IN  let_after_bindings(Tail(vals.l), f.v, fuel,
                                do_let_bindings(vals.l[1].l, env, f.v, f.s, fuel, 0))

\* expression is the result of scheme_eval(vals[0], env)
if_choose(vals, expression) ==
    IF expression.st # "ok" THEN expression
    ELSE IF scheme_true(expression.v) THEN Ok(vals.l[2], expression.s, expression.d)
    ELSE IF Len(vals.l) >= 3 THEN Ok(vals.l[3], expression.s, expression.d)
    ELSE Ok(okay, expression.s, expression.d)

do_if_form(vals, env, s, fuel) ==
    IF check_form(vals, 2, {3}) # "ok" THEN Err(check_form(vals, 2, {3}), s, 0)
    ELSE if_choose(vals, scheme_eval(vals.l[1], env, s, fuel))

\* and_test that returns the last value as it is
and_test_unquoted(vals, i, env, fuel, d, test) ==
    IF test.st # "ok" THEN WithD(test, d)
    ELSE IF scheme_false(test.v) THEN Ok(Bool(FALSE), test.s, Max(d, test.d))
    ELSE IF i = Len(vals) THEN Ok(test.v, test.s, Max(d, test.d))
    ELSE do_and_loop(vals, i + 1, env, test.s, fuel, Max(d, test.d))

\* test is the result of scheme_eval(vals[i], env)
and_test(vals, i, env, fuel, d, test) ==
    IF test.st # "ok" THEN WithD(test, d)
    ELSE IF scheme_false(test.v) THEN Ok(Bool(FALSE), test.s, Max(d, test.d))
    ELSE IF i = Len(vals) THEN Ok(quote(test.v), test.s, Max(d, test.d))
    ELSE do_and_loop(vals, i + 1, env, test.s, fuel, Max(d, test.d))

\* for i in range(len(vals)): the operands from i on
do_and_loop(vals, i, env, s, fuel, d) ==
    and_test(vals, i, env, fuel, d, scheme_eval(vals[i], env, s, fuel))

do_and_form(vals, env, s, fuel) ==
    IF Len(vals.l) = 0 THEN Ok(Bool(TRUE), s, 0)
    ELSE do_and_loop(vals.l, 1, env, s, fuel, 0)

\* test is the result of scheme_eval(vals[i], env)
or_test(vals, i, env, fuel, d, test) ==
    IF test.st # "ok" THEN WithD(test, d)
    ELSE IF scheme_true(test.v) THEN Ok(quote(test.v), test.s, Max(d, test.d))
    ELSE do_or_loop(vals, i + 1, env, test.s, fuel, Max(d, test.d))

\* for i in range(len(vals) - 1): the operands from i on, but the last
do_or_loop(vals, i, env, s, fuel, d) ==
    IF i > Len(vals) - 1 THEN Ok(vals[Len(vals)], s, d)
    ELSE or_test(vals, i, env, fuel, d, scheme_eval(vals[i], env, s, fuel))

do_or_form(vals, env, s, fuel) ==
    IF Len(vals.l) = 0 THEN Ok(Bool(FALSE), s, 0)
    ELSE do_or_loop(vals.l, 1, env, s, fuel, 0)

\* if scheme_true(test): ...  test is True for an else clause and the result
\* of scheme_eval(clause.first, env) otherwise
cond_test(vals, i, env, fuel, d, test) ==
    LET clause == vals[i]
    IN  IF test.st # "ok" THEN WithD(test, d)
        ELSE IF scheme_true(test.v)
        THEN IF Len(clause.l) - 1 = 0 THEN Ok(quote(test.v), test.s, Max(d, test.d))
             ELSE IF Len(clause.l) - 1 > 1
             THEN Ok(L(<<Sym("begin")>> \o Tail(clause.l)), test.s, Max(d, test.d))
             ELSE Ok(clause.l[2], test.s, Max(d, test.d))
        ELSE do_cond_loop(vals, i + 1, env, test.s, fuel, Max(d, test.d))

\* for i, clause in enumerate(vals): the clauses from i on
do_cond_loop(vals, i, env, s, fuel, d) ==
    IF i > Len(vals) THEN Ok(okay, s, d)
    ELSE LET clause == vals[i]
             num_clauses == Len(vals)
         IN  IF check_form(clause, 1, {}) # "ok" THEN Err(check_form(clause, 1, {}), s, d)
             ELSE IF clause.l[1] = Sym("else")
             THEN IF i < num_clauses THEN Err("else must be last", s, d)
                  ELSE IF Tail(clause.l) = <<>> THEN Err("badly formed else clause", s, d)
                  ELSE cond_test(vals, i, env, fuel, d, Ok(Bool(TRUE), s, 0))
             ELSE cond_test(vals, i, env, fuel, d, scheme_eval(clause.l[1], env, s, fuel))

do_cond_form(vals, env, s, fuel) == do_cond_loop(vals.l, 1, env, s, fuel, 0)

\* returned is the result of scheme_eval(vals.first, env)
begin_next(vals, i, env, fuel, d, returned) ==
    IF returned.st # "ok" THEN WithD(returned, d)
    ELSE IF i = Len(vals) THEN Ok(quote(returned.v), returned.s, Max(d, returned.d))
    ELSE do_begin_loop(vals, i + 1, env, returned.s, fuel, Max(d, returned.d))

\* while vals != nil: returned = scheme_eval(vals.first, env)
do_begin_loop(vals, i, env, s, fuel, d) ==
    begin_next(vals, i, env, fuel, d, scheme_eval(vals[i], env, s, fuel))

do_begin_form(vals, env, s, fuel) ==
    IF check_form(vals, 1, {}) # "ok" THEN Err(check_form(vals, 1, {}), s, 0)
    ELSE do_begin_loop(vals.l, 1, env, s, fuel, 0)

\* LOGIC_FORMS[first](rest, env)
LogicForm(first, rest, env, s, fuel) ==
    CASE first = "and" -> do_and_form(rest, env, s, fuel)
      [] first = "or" -> do_or_form(rest, env, s, fuel)
      [] first = "if" -> do_if_form(rest, env, s, fuel)
      [] first = "cond" -> do_cond_form(rest, env, s, fuel)
      [] first = "begin" -> do_begin_form(rest, env, s, fuel)

\* r is the result of scheme_eval for the operand i; args are the values of
\* the operands before it
operands_next(rest, i, env, fuel, args, d, r) ==
    IF r.st # "ok" THEN WithD(r, d)
    ELSE eval_operands(rest, i + 1, env, r.s, fuel, Append(args, r.v), Max(d, r.d))

\* rest.map(lambda operand: scheme_eval(operand, env)): the operands from i
\* on; the result's v is the Scheme list of the values
eval_operands(rest, i, env, s, fuel, args, d) ==
    IF i > Len(rest) THEN Ok(L(args), s, d)
    ELSE operands_next(rest, i, env, fuel, args, d, scheme_eval(rest[i], env, s, fuel))

\* scheme_eval(<r>, env): r is what the handler of a logic form returned
eval_again(env, fuel, r) ==
    IF r.st # "ok" THEN r ELSE WithD(scheme_eval(r.v, env, r.s, fuel), r.d)

\* expr, env = do_let_form(rest, env); scheme_eval(expr, env)
eval_let_body(fuel, r) ==
    IF r.st # "ok" THEN r ELSE WithD(scheme_eval(r.v, r.env, r.s, fuel), r.d)

\* scheme_apply(procedure, args, env), with the operator and the operands
\* evaluated
eval_apply(env, fuel, procedure, args) ==
    IF args.st # "ok" THEN args
    ELSE WithD(scheme_apply(procedure.v, args.v, env, args.s, fuel), args.d)

\* args = rest.map(...), with the operator evaluated
eval_args(rest, env, fuel, procedure) ==
    IF procedure.st # "ok" THEN procedure
    ELSE eval_apply(env, fuel, procedure,
                    eval_operands(rest.l, 1, env, procedure.s, fuel, <<>>, procedure.d))

scheme_eval(expr, env, s0, fuel) ==
    IF fuel = 0 THEN Overflow(s0)
    ELSE LET s == Log(s0, EvalEv(expr, env))
         IN
    IF expr = NoneValue THEN Err("Cannot evaluate an undefined expression.", s, 1)
    ELSE IF scheme_symbolp(expr)
    THEN LET r == lookup(s.h, env, expr)
         IN  IF r.st = "ok" THEN Ok(r.v, s, 1) ELSE Err(r.v.msg, s, 1)
    ELSE IF scheme_atomp(expr) \/ scheme_stringp(expr) \/ expr = okay THEN Ok(expr, s, 1)
    ELSE IF ~scheme_listp(expr) THEN Err("malformed list", s, 1)
    ELSE LET first == Head(expr.l)
             rest == L(Tail(expr.l))
         IN
    IF scheme_symbolp(first) /\ first.s \in LOGIC_FORMS
    THEN Up(eval_again(env, fuel - 1, LogicForm(first.s, rest, env, s, fuel - 1)))
    ELSE IF first = Sym("lambda") THEN Up(do_lambda_form(rest, env, s))
    ELSE IF first = Sym("mu") THEN Up(do_mu_form(rest, s))
    ELSE IF first = Sym("define") THEN Up(do_define_form(rest, env, s, fuel - 1))
    ELSE IF first = Sym("quote") THEN Up(do_quote_form(rest, s))
    ELSE IF first = Sym("let")
    THEN Up(eval_let_body(fuel - 1, do_let_form(rest, env, s, fuel - 1)))
    ELSE Up(eval_args(rest, env, fuel - 1, scheme_eval(first, env, s, fuel - 1)))

\* scheme_eval(procedure.body, frame); frame is the result of make_call_frame
apply_body(procedure, fuel, frame) ==
    IF frame.st # "ok" THEN frame
    ELSE scheme_eval(procedure.body, frame.v, frame.s, fuel)

\* scheme_apply with the call frame of a LambdaProcedure made in the caller's
\* frame
scheme_apply_dynamic(procedure, args, env, s, fuel) ==
    IF procedure.t = "prim" THEN apply_primitive(procedure, args, env, s)
    ELSE IF procedure.t \in {"lambda", "mu"}
    THEN apply_body(procedure, fuel, make_call_frame(s, env, procedure.formals, args))
    ELSE Err("Cannot call", s, 0)

scheme_apply(procedure, args, env, s, fuel) ==
    IF procedure.t = "prim" THEN apply_primitive(procedure, args, env, s)
    ELSE IF procedure.t = "lambda"
    THEN apply_body(procedure, fuel,
                    make_call_frame(s, procedure.env, procedure.formals, args))
    ELSE IF procedure.t = "mu"
    THEN apply_body(procedure, fuel, make_call_frame(s, env, procedure.formals, args))
    ELSE Err("Cannot call", s, 0)

(***************************************************************************)
(* Tail recursion: scheme_optimized_eval is one activation; its loop       *)
(* (optimized_loop, one iteration and what follows it) replaces expr and   *)
(* env where scheme_eval calls itself.                                     *)
(***************************************************************************)
RECURSIVE optimized_loop(_, _, _, _)

\* expr = <r>; continue: r is what the handler of a logic form returned
optimized_again(env, fuel, r) ==
    IF r.st # "ok" THEN r ELSE WithD(optimized_loop(r.v, env, r.s, fuel), r.d)

\* optimized_let_body with env left as it was
optimized_let_body_outer(fuel, r) ==
    IF r.st # "ok" THEN r
    ELSE WithD(optimized_loop(r.v, r.s.h[r.env].parent, r.s, fuel), r.d)

\* expr, env = do_let_form(rest, env); continue
optimized_let_body(fuel, r) ==
    IF r.st # "ok" THEN r ELSE WithD(optimized_loop(r.v, r.env, r.s, fuel), r.d)

\* expr = procedure.body; env = frame; continue
optimized_body(procedure, fuel, d, frame) ==
    IF frame.st # "ok" THEN WithD(frame, d)
    ELSE WithD(optimized_loop(procedure.body, frame.v, frame.s, fuel), d)

\* the branches on the procedure's type, with the operator and the operands
\* evaluated
optimized_apply(env, fuel, procedure, args) ==
    IF args.st # "ok" THEN args
    ELSE IF procedure.v.t = "prim"
    THEN WithD(apply_primitive(procedure.v, args.v, env, args.s), args.d)
    ELSE IF procedure.v.t = "lambda"
    THEN optimized_body(procedure.v, fuel, args.d,
             make_call_frame(args.s, procedure.v.env, procedure.v.formals, args.v))
    ELSE IF procedure.v.t = "mu"
    THEN optimized_body(procedure.v, fuel, args.d,
             make_call_frame(args.s, env, procedure.v.formals, args.v))
    ELSE Err("Cannot call", args.s, args.d)

\* args = rest.map(...), with the operator evaluated
optimized_args(rest, env, fuel, procedure) ==
    IF procedure.st # "ok" THEN procedure
    ELSE optimized_apply(env, fuel, procedure,
                         eval_operands(rest.l, 1, env, procedure.s, fuel, <<>>, procedure.d))

optimized_loop(expr, env, s0, fuel) ==
    IF s0.it = 0 THEN Diverge(s0)
    ELSE LET s == Log([s0 EXCEPT !.it = @ - 1], EvalEv(expr, env))
         IN
    IF expr = NoneValue THEN Err("Cannot evaluate an undefined expression.", s, 0)
    ELSE IF scheme_symbolp(expr)
    THEN LET r == lookup(s.h, env, expr)
         IN  IF r.st = "ok" THEN Ok(r.v, s, 0) ELSE Err(r.v.msg, s, 0)
    ELSE IF scheme_atomp(expr) \/ scheme_stringp(expr) \/ expr = okay THEN Ok(expr, s, 0)
    ELSE IF ~scheme_listp(expr) THEN Err("malformed list", s, 0)
    ELSE LET first == Head(expr.l)
             rest == L(Tail(expr.l))
         IN
    IF scheme_symbolp(first) /\ first.s \in LOGIC_FORMS
    THEN optimized_again(env, fuel, LogicForm(first.s, rest, env, s, fuel))
    ELSE IF first = Sym("lambda") THEN do_lambda_form(rest, env, s)
    ELSE IF first = Sym("mu") THEN do_mu_form(rest, s)
    ELSE IF first = Sym("define") THEN do_define_form(rest, env, s, fuel)
    ELSE IF first = Sym("quote") THEN do_quote_form(rest, s)
    ELSE IF first = Sym("let")
    THEN optimized_let_body(fuel, do_let_form(rest, env, s, fuel))
    ELSE optimized_args(rest, env, fuel, scheme_eval(first, env, s, fuel))

scheme_optimized_eval(expr, env, s, fuel) ==
    IF fuel = 0 THEN Overflow(s) ELSE Up(optimized_loop(expr, env, s, fuel - 1))

(***************************************************************************)
(* The expressions the driver evaluates, written with the reader's         *)
(* constructors: S a symbol, N a number.                                   *)
(***************************************************************************)
S(x) == Sym(x)
N(n) == Num(n)
True == Bool(TRUE)
False == Bool(FALSE)

\* (define (loop n) (if (= n 0) 0 (loop (- n 1)))): the recursive call is the
\* result of a control form
DefLoop ==
    L(<<S("define"), L(<<S("loop"), S("n")>>),
        L(<<S("if"), L(<<S("="), S("n"), N(0)>>), N(0),
            L(<<S("loop"), L(<<S("-"), S("n"), N(1)>>)>>)>>)>>)
\* (define (lloop n) (let ((k n)) (if (= k 0) 0 (lloop (- k 1))))): the
\* recursive call is in a let body
DefLetLoop ==
    L(<<S("define"), L(<<S("lloop"), S("n")>>),
        L(<<S("let"), L(<<L(<<S("k"), S("n")>>)>>),
            L(<<S("if"), L(<<S("="), S("k"), N(0)>>), N(0),
                L(<<S("lloop"), L(<<S("-"), S("k"), N(1)>>)>>)>>)>>)>>)
\* (define (bloop n) n (if (= n 0) 0 (bloop (- n 1)))): a body of two
\* expressions, the recursive call in the last
DefBodyLoop ==
    L(<<S("define"), L(<<S("bloop"), S("n")>>), S("n"),
        L(<<S("if"), L(<<S("="), S("n"), N(0)>>), N(0),
            L(<<S("bloop"), L(<<S("-"), S("n"), N(1)>>)>>)>>)>>)
\* (define (f) x) and (define m (mu () x)): the same body, free in x
DefLambda == L(<<S("define"), L(<<S("f")>>), S("x")>>)
DefMu == L(<<S("define"), S("m"), L(<<S("mu"), nil, S("x")>>)>>)
Prelude == L(<<S("begin"), DefLambda, DefMu, DefLoop, DefLetLoop, DefBodyLoop>>)

CallLambda == L(<<S("f")>>)
CallMu == L(<<S("m")>>)
ScopeProbes == {CallLambda, CallMu}

LoopNames == {"loop", "lloop", "bloop"}
LoopCall(name, n) == L(<<S(name), N(n)>>)
LoopProbes == {LoopCall(name, n) : name \in LoopNames, n \in 0..MaxN}

DefineX(n) == L(<<S("define"), S("x"), N(n)>>)
\* (define x y), y unbound
DefineUnbound == L(<<S("define"), S("x"), S("y")>>)
DefineTooMany == L(<<S("define"), S("x"), N(1), N(2)>>)
DefineTooFew == L(<<S("define"), S("x")>>)
\* (define x (begin (define x 2) y)): the value expression binds, then fails
DefineFailsLate == L(<<S("define"), S("x"), L(<<S("begin"), DefineX(2), S("y")>>)>>)
DefineProbes ==
    {DefineX(1), DefineX(2), DefineUnbound, DefineTooMany, DefineTooFew,
     DefineFailsLate}

\* (let ((x 1) (y x)) y)
LetSimultaneous ==
    L(<<S("let"), L(<<L(<<S("x"), N(1)>>), L(<<S("y"), S("x")>>)>>), S("y")>>)
\* (let ((x 2) (k 1)) (m)): the body calls the mu in the let frame
LetCallsMu ==
    L(<<S("let"), L(<<L(<<S("x"), N(2)>>), L(<<S("k"), N(1)>>)>>), CallMu>>)
LetCallsLambda ==
    L(<<S("let"), L(<<L(<<S("x"), N(2)>>), L(<<S("k"), N(1)>>)>>), CallLambda>>)
\* (let ((1 2) (k (define x 2))) k): the first name is no symbol
LetBadName ==
    L(<<S("let"), L(<<L(<<N(1), N(2)>>), L(<<S("k"), DefineX(2)>>)>>), S("k")>>)
\* (let ((x 2)) ((let ((x 1)) (lambda () x)))): the procedure is made where x
\* is 1 and called where x is 2
Nested(form) ==
    L(<<S("let"), L(<<L(<<S("x"), N(2)>>)>>),
        L(<<L(<<S("let"), L(<<L(<<S("x"), N(1)>>)>>), L(<<S(form), nil, S("x")>>)>>)>>)>>)
LetProbes ==
    {LetSimultaneous, LetCallsMu, LetCallsLambda, LetBadName, Nested("lambda"),
     Nested("mu")}

Else(body) == L(<<S("else")>> \o body)
Clause(test, body) == L(<<test>> \o body)
Cond(clauses) == L(<<S("cond")>> \o clauses)
\* the tests of the clauses before a misplaced else
Tests == {False, True, S("x")}
CondElseLast == Cond(<<Clause(False, <<N(1)>>), Else(<<N(2), N(3)>>)>>)
CondElseFirst(test) == Cond(<<Else(<<N(2)>>), Clause(test, <<N(3)>>)>>)
CondElseMiddle(test) ==
    Cond(<<Clause(test, <<N(1)>>), Else(<<N(2)>>), Clause(False, <<N(3)>>)>>)
CondElseEmpty == Cond(<<Clause(False, <<N(1)>>), Else(<<>>)>>)
CondNoMatch == Cond(<<Clause(False, <<N(1)>>)>>)
CondTestOnly == Cond(<<Clause(N(2), <<>>)>>)
CondProbes ==
    {CondElseLast, CondElseEmpty, CondNoMatch, CondTestOnly}
        \cup {CondElseFirst(t) : t \in Tests} \cup {CondElseMiddle(t) : t \in Tests}

And(ops) == L(<<S("and")>> \o ops)
Or(ops) == L(<<S("or")>> \o ops)
AndOrProbes ==
    {And(<<>>), Or(<<>>),
     And(<<N(1), N(2), N(3)>>), Or(<<False, False, N(5)>>), And(<<N(1), False, N(3)>>),
     And(<<False, DefineX(2)>>), And(<<N(1), DefineX(2)>>),
     Or(<<N(1), DefineX(2)>>), Or(<<False, DefineX(2)>>),
     And(<<N(1), quote(S("y"))>>), Or(<<False, quote(S("y"))>>),
     Or(<<quote(S("y")), DefineX(2)>>),
     And(<<quote(And(<<False>>))>>), Or(<<False, quote(And(<<False>>))>>),
     Or(<<quote(And(<<False>>)), N(1)>>),
     And(<<N(2), DefineX(1), False, DefineX(2)>>), Or(<<False, False>>)}

\* the formal parameter lists of the lambda, mu and define forms
FormalsPool ==
    {<<>>, <<S("a")>>, <<S("a"), S("b")>>, <<S("a"), S("a")>>, <<S("a"), N(1)>>,
     <<N(1), N(1)>>, <<S("a"), N(1), S("a")>>, <<S("a"), S("a"), N(1)>>,
     <<S("a"), S("b"), S("a")>>, <<True, S("a")>>}
LambdaForm(formals) == L(<<S("lambda"), L(formals), N(1)>>)
MuForm(formals) == L(<<S("mu"), L(formals), N(1)>>)
\* (define (f . formals) x)
DefineProc(formals) == L(<<S("define"), L(<<S("f")>> \o formals), S("x")>>)
FormalsProbes ==
    {LambdaForm(fs) : fs \in FormalsPool} \cup {MuForm(fs) : fs \in FormalsPool}
        \cup {DefineProc(fs) : fs \in FormalsPool \ {<<>>, <<S("a")>>, <<S("a"), S("b")>>}}

\* what the driver evaluates in the global frame, and what in any frame
GlobalPool ==
    {Prelude} \cup LoopProbes \cup LetProbes \cup CondProbes \cup AndOrProbes
        \cup FormalsProbes
FramePool == DefineProbes \cup ScopeProbes \cup {S("x")}

(***************************************************************************)
(* The driver.  heap holds the frames the program can still reach; last    *)
(* records the call that has just returned: its arguments, its result      *)
(* (st, v), the depth d of evaluator activations it reached, its history   *)
(* tr, and the heap before it (pre) and as it left it (post), the frames    *)
(* nothing holds any more included.  The driver takes the result (Return)  *)
(* before it makes the next call.                                          *)
(***************************************************************************)
\* of the built-in names only = and - are bound: the expressions of the driver
\* use no other
create_global_frame ==
    [bindings |-> ("=" :> PrimitiveProcedure("=")) @@ ("-" :> PrimitiveProcedure("-")),
     parent |-> None]

\* the frames a value keeps alive
Refs(v) == IF v.t = "lambda" THEN {v.env} ELSE {}

\* the frames of h beyond the first k that the first k reach: a frame that
\* nothing reaches any more is gone
RECURSIVE Reach(_, _)
Reach(h, k) ==
    LET reached == UNION {{h[i].parent} \cup UNION {Refs(h[i].bindings[x]) : x \in DOMAIN h[i].bindings} : i \in 1..k}
        top == CHOOSE n \in reached \cup {k} : \A j \in reached \cup {k} : j <= n
    IN  IF top > k THEN Reach(h, top) ELSE k

Reclaim(h, k) == SubSeq(h, 1, Reach(h, k))

StartAt(h) == [h |-> h, tr |-> <<>>, it |-> MaxIter]
Start == StartAt(heap)

Record(op, expr, env, r) ==
    [op |-> op, expr |-> expr, env |-> env, st |-> r.st, v |-> r.v, d |-> r.d,
     tr |-> r.s.tr, pre |-> heap, post |-> r.s.h]

Inputs == (GlobalPool \X {1}) \cup (FramePool \X (1..Len(heap)))

Idle ==
    [op |-> "none", expr |-> nil, env |-> None, st |-> "ok", v |-> okay,
     d |-> 0, tr |-> <<>>, pre |-> <<>>, post |-> <<>>]

Init ==
    /\ heap = <<create_global_frame>>
    /\ last = Idle

\* scheme_eval(expr, env)
Eval ==
    \E in \in Inputs :
        LET r == scheme_eval(in[1], in[2], Start, RecursionLimit)
        IN  /\ last = Idle
            /\ Len(Reclaim(r.s.h, Len(heap))) <= MaxFrames
            /\ heap' = Reclaim(r.s.h, Len(heap))
            /\ last' = Record("scheme_eval", in[1], in[2], r)

\* scheme_optimized_eval(expr, env); a call that never returns is no step
OptEval ==
    \E in \in Inputs :
        LET r == scheme_optimized_eval(in[1], in[2], Start, RecursionLimit)
        IN  /\ last = Idle
            /\ r.st # "div"
            /\ Len(Reclaim(r.s.h, Len(heap))) <= MaxFrames
            /\ heap' = Reclaim(r.s.h, Len(heap))
            /\ last' = Record("scheme_optimized_eval", in[1], in[2], r)

LookupSymbols == {S("x"), S("y"), S("f")}

\* env.lookup(symbol)
Lookup ==
    \E self \in 1..Len(heap), symbol \in LookupSymbols :
        LET r == lookup(heap, self, symbol)
        IN  /\ last = Idle
            /\ heap' = heap
            /\ last' = Record("lookup", symbol, self, [st |-> r.st, v |-> r.v, d |-> 0, s |-> Start])

\* the formals and values make_call_frame is called with
CallFormals == {<<>>, <<S("x")>>, <<S("x"), S("y")>>}
CallVals == {<<>>, <<N(1)>>, <<N(1), N(2)>>, <<N(1), N(2), N(2)>>}

\* env.make_call_frame(formals, vals); the caller holds the frame it returns
\* when env is the newest frame, and drops it otherwise
MakeCallFrame ==
    \E self \in 1..Len(heap), formals \in CallFormals, vals \in CallVals :
        LET r == make_call_frame(Start, self, L(formals), L(vals))
        IN  /\ last = Idle
            /\ Len(heap) < MaxFrames
            /\ heap' = IF r.st = "ok" /\ self = Len(heap) THEN r.s.h ELSE heap
            /\ last' = Record("make_call_frame", L(<<L(formals), L(vals)>>), self, r)

\* the driver takes the result: print(result)
Return ==
    /\ last # Idle
    /\ last' = Idle
    /\ UNCHANGED heap

Next == Eval \/ OptEval \/ Lookup \/ MakeCallFrame \/ Return

Spec == Init /\ [][Next]_vars

(***************************************************************************)
(* Input/Output: read_eval_print_loop(next_line, env, quiet, startup,      *)
(* interactive), called on the global frame with no files to load.  Under  *)
(* ReplSpec last is the record of the loop: its flags, whether it is       *)
(* still running, has returned or has let an exception out (status), what  *)
(* the last turn of the loop met (event: a line, the end of the input or   *)
(* an interrupt), the line it read, the last value and what it printed     *)
(* (out), what the turn before printed (prev), and the heap before the     *)
(* turn (pre).                                                             *)
(***************************************************************************)
\* what scheme_read raises a SyntaxError on
Unreadable == [t |-> "unreadable"]

\* the exceptions of the model that are no SchemeError, SyntaxError,
\* ValueError or RuntimeError
PythonErrors ==
    {"TypeError: unhashable type", "AttributeError: first", "IndexError",
     "TypeError: binding is not a pair"}

\* the lines next_line returns
ReplLines ==
    {<<DefineX(1)>>, <<DefineX(2)>>, <<S("x")>>, <<DefineX(1), S("y")>>,
     <<DefineX(2), S("y"), DefineX(1)>>, <<Prelude>>, <<LoopCall("loop", MaxN)>>,
     <<LoopCall("loop", 0), DefineX(1)>>, <<Unreadable>>}

RECURSIVE eval_line(_, _, _, _)

\* result is the result of scheme_eval(expression, env); the rest of the line
\* follows when it is a value
line_next(src, i, env, result) ==
    IF result.st # "ok" THEN result ELSE eval_line(src, i + 1, env, result)

\* while src.more_on_line: expression = scheme_read(src);
\* result = scheme_eval(expression, env).  before is the result so far
eval_line(src, i, env, before) ==
    IF i > Len(src) THEN before
    ELSE IF src[i] = Unreadable THEN Err("SyntaxError", before.s, 0)
    ELSE line_next(src, i, env,
                   scheme_eval(src[i], env, StartAt(before.s.h), RecursionLimit))

\* except (SchemeError, SyntaxError, ValueError, RuntimeError): the exceptions
\* the loop reports, a RuntimeError only when it is the exhausted recursion
reported(result) ==
    \/ result.st = "overflow"
    \/ result.st = "err" /\ result.v.msg \notin PythonErrors

\* the loop after a line whose evaluation gave result
on_result(result) == IF result.st = "ok" \/ reported(result) THEN "running" ELSE "raised"

\* what the loop prints for result
printed(quiet, result) ==
    IF result.st = "ok" THEN (IF quiet THEN "none" ELSE "value")
    ELSE IF reported(result) THEN "Error" ELSE "none"

\* except KeyboardInterrupt when the loop always returns
on_interrupt_return(startup, interactive) == "returned"

\* except KeyboardInterrupt: if not startup: raise; if not interactive: return
on_interrupt(startup, interactive) ==
    IF ~startup THEN "raised" ELSE IF ~interactive THEN "returned" ELSE "running"

\* except EOFError: print(); return
on_eof == "returned"

\* the record of a turn of the loop
Turn(event, src, status, v, out) ==
    [last EXCEPT !.event = event, !.line = src, !.status = status, !.v = v,
                 !.out = out, !.prev = last.out, !.pre = heap]

ReplInit ==
    /\ heap = <<create_global_frame>>
    /\ \E quiet, startup, interactive \in BOOLEAN :
          last = [op |-> "read_eval_print_loop", quiet |-> quiet, startup |-> startup,
                  interactive |-> interactive, status |-> "running", event |-> "start",
                  line |-> <<>>, v |-> okay, out |-> "none", prev |-> "none",
                  pre |-> <<>>]

\* src = next_line(), and the expressions of the line
ReplLine ==
    \E src \in ReplLines :
        LET result == eval_line(src, 1, 1, Ok(okay, Start, 0))
        IN  /\ last.status = "running"
            /\ heap' = Reclaim(result.s.h, Len(heap))
            /\ last' = Turn("line", src, on_result(result), result.v,
                            printed(last.quiet, result))

\* next_line() raises EOFError
ReplEof ==
    /\ last.status = "running"
    /\ last' = Turn("eof", <<>>, on_eof, okay, "newline")
    /\ UNCHANGED heap

\* next_line() raises KeyboardInterrupt
ReplInterrupt ==
    /\ last.status = "running"
    /\ last' = Turn("interrupt", <<>>, on_interrupt(last.startup, last.interactive), okay,
                    IF last.startup THEN "KeyboardInterrupt" ELSE "none")
    /\ UNCHANGED heap

ReplNext == ReplLine \/ ReplEof \/ ReplInterrupt

ReplSpec == ReplInit /\ [][ReplNext]_vars

(***************************************************************************)
(* Properties.  A property about one call reads it off last, the record    *)
(* of the call that has just returned.                                     *)
(***************************************************************************)
EvalOps == {"scheme_eval", "scheme_optimized_eval"}
Evaluated(expr) == last.op \in EvalOps /\ last.expr = expr
Failed(msg) == last.st = "err" /\ last.v.msg = msg
\* the frames the call allocated
base == Len(last.pre)
new == SubSeq(last.post, base + 1, Len(last.post))

\* the procedure a call in frame G applies, the frame F it was made in, and
\* the frame the call makes, for the calls (f), (m), (let (...) (f)),
\* (let (...) (m)) and the two nested lets
ScopeCase ==
    IF last.expr \in {CallLambda, CallMu}
    THEN [p |-> lookup(last.pre, last.env, last.expr.l[1]), G |-> last.env, call |-> 1]
    ELSE IF last.expr \in {LetCallsLambda, LetCallsMu}
    THEN [p |-> lookup(last.pre, last.env, last.expr.l[3].l[1]), G |-> base + 1, call |-> 2]
    ELSE [p |-> [st |-> "ok",
                 v |-> IF last.expr = Nested("mu") THEN MuProcedure(nil, S("x"))
                       ELSE LambdaProcedure(nil, S("x"), base + 2)],
          G |-> base + 1, call |-> 3]
ScopeCalls ==
    {CallLambda, CallMu, LetCallsLambda, LetCallsMu, Nested("lambda"), Nested("mu")}
\* the frame whose chain resolves the free x of the body
ScopeFrame == IF ScopeCase.p.v.t = "lambda" THEN ScopeCase.p.v.env ELSE ScopeCase.G

\* C1: applying a LambdaProcedure made in frame F from frame G makes the call
\* frame a child of F and resolves the free x of the body in F's chain;
\* applying a MuProcedure from G makes the call frame a child of G and
\* resolves x in G's chain.  It is so under scheme_eval (scheme_apply) and
\* under scheme_optimized_eval.
C1_Scope ==
    (/\ last.op \in EvalOps
     /\ last.expr \in ScopeCalls
     /\ ScopeCase.p.st = "ok"
     /\ ScopeCase.p.v.t \in {"lambda", "mu"})
        => /\ Len(new) = ScopeCase.call
           /\ new[ScopeCase.call] = Frame(ScopeFrame)
           /\ last.st = lookup(last.post, ScopeFrame, S("x")).st
           /\ last.v = lookup(last.post, ScopeFrame, S("x")).v

\* the tail-call evaluator applies the mu m where x is 2, the lambda f made
\* where x is 1 is at hand, and m answers 2
C1_Witness ==
    /\ last.op = "scheme_optimized_eval"
    /\ last.expr = CallMu
    /\ last.env # 1
    /\ lookup(last.pre, last.env, S("m")).v = MuProcedure(nil, S("x"))
    /\ lookup(last.pre, last.env, S("f")).v = LambdaProcedure(nil, S("x"), 1)
    /\ lookup(last.pre, 1, S("x")).v = N(1)
    /\ lookup(last.pre, last.env, S("x")).v = N(2)
    /\ last.v = N(2)
    /\ new = <<Frame(last.env)>>

Run(op, expr, env, h) ==
    IF op = "scheme_eval" THEN scheme_eval(expr, env, StartAt(h), RecursionLimit)
    ELSE scheme_optimized_eval(expr, env, StartAt(h), RecursionLimit)
Other(op) == IF op = "scheme_eval" THEN "scheme_optimized_eval" ELSE "scheme_eval"
Terminated(st) == st \in {"ok", "err"}
\* the call that has returned and the other evaluator's run r of it agree
Agree(r) ==
    (Terminated(last.st) /\ Terminated(r.st))
        => /\ r.st = last.st
           /\ r.v = last.v
           /\ r.s.h = last.post
           /\ r.s.tr = last.tr

\* C2: for every expression and environment on which both evaluators end
\* (with a value or an error, the host stack not exhausted), they give the
\* same value or both fail with the same error, and leave the same bindings
\* in every frame.
C2_Equivalent ==
    last.op \in EvalOps => Agree(Run(Other(last.op), last.expr, last.env, last.pre))

\* the tail-call evaluator counts (loop 2) down to 0 and the other evaluator,
\* run on the same heap, ends too
C2_Witness ==
    /\ Evaluated(LoopCall("loop", 2))
    /\ last.op = "scheme_optimized_eval"
    /\ last.st = "ok"
    /\ last.v = N(0)
    /\ Run("scheme_eval", last.expr, last.env, last.pre).st = "ok"

\* the counting loop the call applies, when the call is one and the loop is
\* defined
LoopOf(expr) == {name \in LoopNames : \E n \in 0..MaxN : expr = LoopCall(name, n)}
LoopDefined ==
    /\ last.expr \in LoopProbes
    /\ \A name \in LoopOf(last.expr) : lookup(last.pre, last.env, S(name)).st = "ok"
\* the nesting the same loop reaches when it recurses once
DepthOnce ==
    LET name == CHOOSE name \in LoopOf(last.expr) : TRUE
    IN  Run("scheme_optimized_eval", LoopCall(name, 1), last.env, last.pre).d

\* C3: under scheme_optimized_eval a call of a self-tail-recursive procedure
\* that recurses N times succeeds, nests the evaluator no deeper than a call
\* that recurses once, and returns the value scheme_eval returns (where
\* scheme_eval ends), whether the recursive call is the result of a control
\* form (loop), in a let body (lloop) or in the body itself (bloop).
C3_TailCalls ==
    (last.op = "scheme_optimized_eval" /\ LoopDefined)
        => /\ last.st = "ok"
           /\ last.d <= DepthOnce
           /\ Agree(Run("scheme_eval", last.expr, last.env, last.pre))

\* the frames from f up to the global frame, nearest first
RECURSIVE Chain(_, _)
Chain(h, f) == IF f = None THEN <<>> ELSE <<f>> \o Chain(h, h[f].parent)
\* the places of the chain whose frame binds x
Binders(h, f, x) ==
    {i \in 1..Len(Chain(h, f)) : x.s \in DOMAIN h[Chain(h, f)[i]].bindings}
Nearest(h, f, x) ==
    Chain(h, f)[CHOOSE i \in Binders(h, f, x) : \A j \in Binders(h, f, x) : i <= j]

\* C4: lookup(symbol), and scheme_eval of a symbol, return the value the
\* nearest frame of the receiver's parent chain binds the symbol to, fail
\* with "unknown identifier" exactly when no frame of the chain binds it, and
\* change no frame.
C4_Lookup ==
    (last.op = "lookup" \/ (last.op \in EvalOps /\ last.expr = S("x")))
        => /\ last.post = last.pre
           /\ IF Binders(last.pre, last.env, last.expr) = {}
              THEN Failed("unknown identifier")
              ELSE /\ last.st = "ok"
                   /\ last.v = last.pre[Nearest(last.pre, last.env, last.expr)].bindings[last.expr.s]

\* x is looked up from a frame that does not bind it, whose parent binds it
\* to 2 and whose grandparent binds it to 1
C4_Witness ==
    /\ last.op = "lookup"
    /\ last.expr = S("x")
    /\ Chain(last.pre, last.env) = <<3, 2, 1>>
    /\ Binders(last.pre, last.env, S("x")) = {2, 3}
    /\ last.pre[2].bindings["x"] = N(2)
    /\ last.pre[1].bindings["x"] = N(1)
    /\ last.v = N(2)

\* the frame that binds each of formals to the value at its place in vals
Bound(formals, vals, parent) ==
    [bindings |-> [x \in {formals[i].s : i \in 1..Len(formals)} |->
                      vals[CHOOSE i \in 1..Len(formals) : formals[i].s = x]],
     parent |-> parent]

\* C5: S.make_call_frame(formals, vals), for distinct symbols formals: with
\* as many values as formals it returns a new frame, a child of S, that binds
\* each formal to the value at its place and nothing else; with more or fewer
\* values it fails with "parameter mismatch"; the frames there were, S among
\* them, keep their bindings.
C5_MakeCallFrame ==
    last.op = "make_call_frame"
        => LET formals == last.expr.l[1].l
               vals == last.expr.l[2].l
           IN  /\ SubSeq(last.post, 1, base) = last.pre
               /\ IF Len(formals) = Len(vals)
                  THEN /\ last.st = "ok"
                       /\ last.v = base + 1
                       /\ new = <<Bound(formals, vals, last.env)>>
                  ELSE Failed("parameter mismatch")

\* (x y) and (1 2) make a child of frame 2 that binds x to 1 and y to 2,
\* frame 2 binding x to 2
C5_Witness ==
    /\ last.op = "make_call_frame"
    /\ last.expr = L(<<L(<<S("x"), S("y")>>), L(<<N(1), N(2)>>)>>)
    /\ last.env = 2
    /\ Len(last.pre) = 2
    /\ last.pre[2] = Bound(<<S("x")>>, <<N(2)>>, 1)
    /\ last.st = "ok"
    /\ heap = Append(last.pre, Bound(<<S("x"), S("y")>>, <<N(1), N(2)>>, 2))

\* the places of the history where e happened
At(e) == {p \in DOMAIN last.tr : last.tr[p] = e}
Before(P, Q) == \A p \in P, q \in Q : p < q

\* the bindings of the let form that was evaluated, and the frame it made
LetBindings == last.expr.l[2].l
LetName(j) == LetBindings[j].l[1]
LetValue(j) == LetBindings[j].l[2]
LetFrame == base + 1
\* where the value expression j was evaluated in the outer environment, and
\* where the name j was bound in the new frame
ValueAt(j) == At(EvalEv(LetValue(j), last.env))
NameAt(j) == IF scheme_symbolp(LetName(j)) THEN At(DefineEv(LetFrame, LetName(j).s)) ELSE {}
\* (let ((x 1) (y x)) y) where x is not bound fails
LetExample ==
    (last.expr = LetSimultaneous /\ lookup(last.pre, last.env, S("x")).st = "err")
        => Failed("unknown identifier")

\* C6, as the specification states it: every value expression of a let form
\* is evaluated in the outer environment, and all of them before any name is
\* bound in the new frame.
C6_AllBeforeAny ==
    (last.op \in EvalOps /\ last.expr \in LetProbes)
        => /\ \A j, k \in 1..Len(LetBindings) :
                NameAt(j) # {} => (ValueAt(k) # {} /\ Before(ValueAt(k), NameAt(j)))
           /\ LetExample

\* C6, as the code has it: every value expression of a let form is evaluated
\* in the outer environment and never in the new frame; each name is bound
\* in the new frame once its own value is there and before the value
\* expressions after it are evaluated; a let form that ends has bound every
\* name; so (let ((x 1) (y x)) y) answers the x of the outer environment and
\* fails with "unknown identifier" where there is none.
C6_Let ==
    (last.op \in EvalOps /\ last.expr \in LetProbes)
        => /\ \A j \in 1..Len(LetBindings) :
                /\ At(EvalEv(LetValue(j), LetFrame)) = {}
                /\ NameAt(j) # {} => (ValueAt(j) # {} /\ Before(ValueAt(j), NameAt(j)))
                /\ \A k \in (j + 1)..Len(LetBindings) : Before(NameAt(j), ValueAt(k))
                /\ last.st = "ok" => NameAt(j) # {}
           /\ LetExample
           /\ (last.expr = LetSimultaneous /\ last.st = "ok")
                => last.v = lookup(last.pre, last.env, S("x")).v

\* (let ((x 1) (y x)) y) fails with "unknown identifier" at the value
\* expression x, after x was bound in the new frame
C6_Witness ==
    /\ Evaluated(LetSimultaneous)
    /\ Failed("unknown identifier")
    /\ NameAt(1) # {}
    /\ ValueAt(2) # {}
    /\ Before(NameAt(1), ValueAt(2))

\* the cond forms with an else clause before the last clause
CondMisplaced ==
    {CondElseFirst(test) : test \in Tests} \cup {CondElseMiddle(test) : test \in Tests}

\* C7: a cond form with an else clause that is not its last clause fails,
\* whatever the tests of the other clauses are; (cond (#f 1) (else 2 3))
\* is 3, the value of the last expression of the else clause.
C7_Else ==
    last.op \in EvalOps
        => /\ last.expr \in CondMisplaced => last.st = "err"
           /\ last.expr = CondElseLast => (last.st = "ok" /\ last.v = N(3))

\* the operands of the and/or form that was evaluated.  An operand of the
\* pool is a literal, a quoted datum or (define x n); its value is the
\* literal, the datum, the symbol x
Operands == Tail(last.expr.l)
IsForm(o, name) == IsPair(o) /\ Head(o.l) = S(name)
ValueOf(o) == IF IsForm(o, "quote") \/ IsForm(o, "define") THEN o.l[2] ELSE o
Decides(o) ==
    IF IsForm(last.expr, "and") THEN ValueOf(o) = False ELSE ValueOf(o) # False
\* the place of the deciding operand, the last place when no operand decides
Stop ==
    LET deciding == {i \in 1..Len(Operands) : Decides(Operands[i])}
    IN  IF deciding = {} THEN Len(Operands)
        ELSE CHOOSE i \in deciding : \A j \in deciding : i <= j
\* the operands (define x n) up to the place i
Defines(i) == {j \in 1..i : IsForm(Operands[j], "define")}
\* the heap h after the define operands up to the place i, in frame e
AfterDefines(h, e, i) ==
    IF Defines(i) = {} THEN h
    ELSE LET j == CHOOSE j \in Defines(i) : \A k \in Defines(i) : k <= j
         IN  [h EXCEPT ![e].bindings = ("x" :> Operands[j].l[3]) @@ @]

\* C8: and/or evaluate their operands from the left up to the deciding one
\* (the first false value for and, the first true value for or) and no
\* operand after it: it is absent from the history and what it defines is
\* not defined.  The result is the value of the deciding operand, or of the
\* last operand when none decides, and that value is not evaluated again
\* when it is a symbol or a list.  (and) is true and (or) is false.
C8_AndOr ==
    (last.op \in EvalOps /\ last.expr \in AndOrProbes)
        => /\ last.st = "ok"
           /\ last.v = IF Operands # <<>> THEN ValueOf(Operands[Stop])
                       ELSE IF IsForm(last.expr, "and") THEN True ELSE False
           /\ \A i \in 1..Len(Operands) : At(EvalEv(Operands[i], last.env)) # {} <=> i <= Stop
           /\ \A i, j \in 1..Stop :
                i < j => \E p \in At(EvalEv(Operands[i], last.env)) :
                            \E q \in At(EvalEv(Operands[j], last.env)) : p < q
           /\ Cardinality({p \in DOMAIN last.tr : last.tr[p].ev = "define"})
                = Cardinality(Defines(Stop))
           /\ last.post = AfterDefines(last.pre, last.env, Stop)
           /\ (scheme_symbolp(last.v) \/ IsPair(last.v))
                => \A e \in 1..Len(last.post) : At(EvalEv(last.v, e)) = {}

\* (and 2 (define x 1) #f (define x 2)) where x is 2: false decides, x is 1
\* after it and the last operand has not made it 2 again
C8_Witness ==
    /\ Evaluated(And(<<N(2), DefineX(1), False, DefineX(2)>>))
    /\ lookup(last.pre, 1, S("x")).v = N(2)
    /\ lookup(last.post, 1, S("x")).v = N(1)
    /\ last.v = False
    /\ At(EvalEv(DefineX(2), 1)) = {}

\* the frames of the heap h but the frame e
Others(h, e) == [i \in (1..Len(h)) \ {e} |-> h[i]]
\* the value expression of the define form that was evaluated
DefineOperands == Tail(last.expr.l)
ValueRun == Run("scheme_eval", DefineOperands[2], last.env, last.pre)

\* C9, as the specification states it: (define x e) in E evaluates e in E,
\* binds x to its value in E only and returns x, every other frame keeping
\* its bindings; when e fails or the form has more than two operands, no
\* binding of E is added or changed.
C9_DefineOnly ==
    (last.op \in EvalOps /\ last.expr \in DefineProbes)
        => /\ Others(last.post, last.env) = Others(last.pre, last.env)
           /\ IF Len(DefineOperands) = 2 /\ ValueRun.st = "ok"
              THEN /\ last.st = "ok"
                   /\ last.v = S("x")
                   /\ last.post[last.env].bindings
                        = ("x" :> ValueRun.v) @@ last.pre[last.env].bindings
              ELSE /\ last.st = "err"
                   /\ last.post[last.env].bindings = last.pre[last.env].bindings

\* C9, as the code has it: (define x e) in E evaluates e in E, binds x to its
\* value in E only and returns x, every other frame keeping its bindings;
\* with more or fewer than two operands nothing is evaluated and no binding
\* changes; when e fails the define binds nothing itself and E is left as
\* the evaluation of e left it, x bound if e bound it.
C9_Define ==
    (last.op \in EvalOps /\ last.expr \in DefineProbes)
        => /\ Others(last.post, last.env) = Others(last.pre, last.env)
           /\ IF Len(DefineOperands) # 2
              THEN /\ last.st = "err"
                   /\ last.post = last.pre
                   /\ last.tr = <<EvalEv(last.expr, last.env)>>
              ELSE IF ValueRun.st = "ok"
              THEN /\ last.st = "ok"
                   /\ last.v = S("x")
                   /\ last.post = [ValueRun.s.h EXCEPT
                                      ![last.env].bindings = ("x" :> ValueRun.v) @@ @]
              ELSE /\ last.st = "err"
                   /\ last.v = ValueRun.v
                   /\ last.post = ValueRun.s.h

\* (define x 2) in frame 2, a child of the global frame, which binds x to 1:
\* frame 2 binds x to 2 and the global frame still binds it to 1
C9_Witness ==
    /\ Evaluated(DefineX(2))
    /\ last.env = 2
    /\ last.pre[2].parent = 1
    /\ lookup_own(last.pre, 1, S("x")).v = N(1)
    /\ lookup_own(last.pre, 2, S("x")).st = "err"
    /\ lookup_own(last.post, 2, S("x")).v = N(2)
    /\ lookup_own(last.post, 1, S("x")).v = N(1)
    /\ last.v = S("x")

\* the procedures there are: those the frames bind and the value just returned
Values(h) == UNION {{h[i].bindings[x] : x \in DOMAIN h[i].bindings} : i \in 1..Len(h)}
Procedures ==
    {v \in (IF last.op \in EvalOps THEN {last.v} ELSE {}) \cup Values(heap)
                \cup Values(last.post) :
        v.t \in {"lambda", "mu"}}
Distinct(formals) ==
    /\ \A i \in 1..Len(formals) : scheme_symbolp(formals[i])
    /\ \A i, j \in 1..Len(formals) : i # j => formals[i] # formals[j]
\* the formals of the lambda, mu or define form that was evaluated
FormalsOf(expr) == IF IsForm(expr, "define") THEN Tail(expr.l[2].l) ELSE expr.l[2].l
\* the first place of formals that holds no symbol or a symbol seen before
Violations(formals) ==
    {i \in 1..Len(formals) :
        ~scheme_symbolp(formals[i]) \/ \E j \in 1..(i - 1) : formals[j] = formals[i]}
FirstViolation(formals) ==
    CHOOSE i \in Violations(formals) : \A j \in Violations(formals) : i <= j

\* C10: the formals of every LambdaProcedure and MuProcedure there is are
\* symbols, no two the same; a lambda, mu or define form whose formals are
\* not fails with the error of the first place that is no symbol ("formal
\* parameter is not valid") or repeats one ("duplicate formal parameter"),
\* returns no procedure and binds nothing.
C10_Formals ==
    /\ \A v \in Procedures : Distinct(v.formals.l)
    /\ (last.op \in EvalOps /\ last.expr \in FormalsProbes)
        => LET formals == FormalsOf(last.expr)
           IN  IF Violations(formals) = {}
               THEN last.st = "ok" /\ last.v.t \in {"lambda", "mu"} /\ last.v.formals = L(formals)
               ELSE /\ Failed(IF scheme_symbolp(formals[FirstViolation(formals)])
                              THEN "duplicate formal parameter"
                              ELSE "formal parameter is not valid")
                    /\ last.post = last.pre
                    /\ last.tr = <<EvalEv(last.expr, last.env)>>

\* (lambda (a 1 a) 1) fails at the 1, before the second a
C10_Witness ==
    /\ Evaluated(LambdaForm(<<S("a"), N(1), S("a")>>))
    /\ Failed("formal parameter is not valid")
    /\ heap = last.pre

\* the line the loop read gave an error the loop reports: a SchemeError, a
\* SyntaxError or the exhausted recursion
LineFailed ==
    /\ last.event = "line"
    /\ last.v.t = "error"
    /\ last.v.msg \notin PythonErrors
\* the place of the line that failed: in the lines of ReplLines the first
\* that is no (define x n)
FailedAt ==
    CHOOSE i \in 1..Len(last.line) :
        /\ ~IsForm(last.line[i], "define")
        /\ \A j \in 1..(i - 1) : IsForm(last.line[j], "define")
\* the heap holds what the expressions before the failed one defined and, for
\* the rest, what it held before the line
KeptBindings ==
    heap = IF FailedAt = 1 THEN last.pre
           ELSE [last.pre EXCEPT ![1].bindings = ("x" :> last.line[FailedAt - 1].l[3]) @@ @]
\* the loop reported the error and goes on
Recovered ==
    LineFailed => (last.status = "running" /\ last.out = "Error" /\ KeptBindings)

=============================================================================
